---------------------------- MODULE Spec2Model ----------------------------
(***************************************************************************)
(* Model of blkunblk: the hosts-file editor (hosts.py), the lockdown gate  *)
(* (lockdown.py), the at-job scheduler (scheduler.py), the recents store   *)
(* (recents.py), the event log (eventlog.py) and the two commands blk and  *)
(* unblk (cli.py).                                                         *)
(*                                                                         *)
(* A file is a sequence of tokens.  A token stands for a run of            *)
(* characters that the code never splits: the comment marker "#", one      *)
(* space, the line feed, the two marker words and two domain fragments.    *)
(* "x in line" of Python is IsSubstring on token sequences.  The line feed *)
(* is the only line boundary among the tokens, so str.splitlines() splits  *)
(* at it alone.                                                            *)
(*                                                                         *)
(* SpecHosts calls the functions of hosts.py on every file of up to MaxLen *)
(* tokens.  SpecLockdown and SpecRecents call the functions of lockdown.py *)
(* and recents.py as the tests do, SpecFriction the two functions of       *)
(* friction.py that draw the wait.  Spec runs the commands blk, blk lock,  *)
(* blk status and unblk, one at a time, statement by statement, with the   *)
(* exceptions and interrupts each statement can meet, while the clock      *)
(* advances.  SpecLive runs unblk together with atd, which starts the jobs *)
(* that unblk arms.                                                        *)
(***************************************************************************)
EXTENDS Integers, Sequences, FiniteSets, TLC

VARIABLES
    hosts,      \* text of HOSTS_FILE
    immutable,  \* the immutable flag of HOSTS_FILE (chattr +i / chflags uchg)
    lockdown,   \* content of LOCKDOWN_FILE: Absent, Corrupt or a deadline
    now,        \* the wall clock, datetime.now()
    recents,    \* RECENTS_FILE: whether it exists, and its text
    log,        \* entries of LOG_FILE
    jobs,       \* the at queue
    pc,         \* position of the running command
    loc,        \* locals of the running command
    start,      \* persistent state when the running command started
    run,        \* facts recorded about the running / last command
    nruns,      \* number of commands started
    calls       \* direct calls of the hosts.py functions (SpecHosts)

vars == <<hosts, immutable, lockdown, now, recents, log, jobs, pc, loc,
          start, run, nruns, calls>>

----------------------------------------------------------------------------
(* Bounds *)

MaxLen == 3
MaxOps == 2

----------------------------------------------------------------------------
(* Tokens and texts *)

HASH == "#"
SP == " "
LF == "\n"
BLOCKME == "BLOCKME"
NEVERBLOCK == "NEVERBLOCK"

Fragments == {"face", "book"}

Tokens == {HASH, SP, LF, BLOCKME, NEVERBLOCK} \cup Fragments

Texts(n) == UNION {[1..k -> Tokens] : k \in 0..n}

\* Python: pat in line
IsSubstring(pat, line) ==
    \E i \in 0..(Len(line) - Len(pat)) :
        \A j \in 1..Len(pat) : line[i + j] = pat[j]

\* Python: str.splitlines() on a text whose only line boundary is "\n"
RECURSIVE SplitAcc(_, _, _)
SplitAcc(text, cur, acc) ==
    IF text = <<>>
    THEN IF cur = <<>> THEN acc ELSE Append(acc, cur)
    ELSE IF Head(text) = LF
         THEN SplitAcc(Tail(text), <<>>, Append(acc, cur))
         ELSE SplitAcc(Tail(text), Append(cur, Head(text)), acc)

splitlines(text) == SplitAcc(text, <<>>, <<>>)

\* Python: "\n".join(lines)
RECURSIVE join(_)
join(lines) ==
    IF lines = <<>> THEN <<>>
    ELSE IF Len(lines) = 1 THEN lines[1]
    ELSE lines[1] \o <<LF>> \o join(Tail(lines))

\* path.write_text("\n".join(new_lines) + "\n")
write_lines(new_lines) == join(new_lines) \o <<LF>>

\* Python: str.lstrip()
RECURSIVE lstrip(_)
lstrip(line) ==
    IF line # <<>> /\ Head(line) = SP THEN lstrip(Tail(line)) ELSE line

\* re.sub(r"^#*", "", line)
RECURSIVE strip_hashes(_)
strip_hashes(line) ==
    IF line # <<>> /\ Head(line) = HASH THEN strip_hashes(Tail(line)) ELSE line

\* re.sub(r"^#+", "#", line)
collapse_hashes(line) ==
    IF line # <<>> /\ Head(line) = HASH
    THEN <<HASH>> \o strip_hashes(line)
    ELSE line

\* re.sub(r"^# +", "#", line)
strip_space_after_hash(line) ==
    IF Len(line) >= 2 /\ line[1] = HASH /\ line[2] = SP
    THEN <<HASH>> \o lstrip(Tail(line))
    ELSE line

\* line.lstrip().startswith("#")
is_commented(line) ==
    LET s == lstrip(line) IN s # <<>> /\ Head(s) = HASH

has(marker, line) == IsSubstring(<<marker>>, line)

----------------------------------------------------------------------------
(* hosts.py *)

\* normalize_hosts with re.sub(r"^#*", "#", line)
normalize_hosts_line_hash(line) ==
    IF has(NEVERBLOCK, line) THEN line ELSE <<HASH>> \o strip_hashes(line)

normalize_hosts_line(line) ==
    IF has(NEVERBLOCK, line) THEN line ELSE strip_hashes(line)

normalize_hosts(text) ==
    LET lines == splitlines(text)
    IN  write_lines([i \in 1..Len(lines) |-> normalize_hosts_line(lines[i])])

normalize_comment_style_line(line) ==
    strip_space_after_hash(collapse_hashes(lstrip(line)))

normalize_comment_style(text) ==
    LET lines == splitlines(text)
    IN  write_lines([i \in 1..Len(lines) |->
                        normalize_comment_style_line(lines[i])])

block_all(text) == normalize_comment_style(normalize_hosts(text))

\* unblock_all without the NEVERBLOCK test
unblock_all_line_no_never(line) ==
    IF has(BLOCKME, line) /\ ~is_commented(line)
    THEN <<HASH, SP>> \o line
    ELSE line

\* unblock_all with the comment test turned round
unblock_all_line_no_not(line) ==
    IF has(NEVERBLOCK, line) THEN line
    ELSE IF has(BLOCKME, line) /\ is_commented(line)
         THEN <<HASH, SP>> \o line
         ELSE line

unblock_all_line(line) ==
    IF has(NEVERBLOCK, line) THEN line
    ELSE IF has(BLOCKME, line) /\ ~is_commented(line)
         THEN <<HASH, SP>> \o line
         ELSE line

unblock_all(text) ==
    LET lines == splitlines(text)
    IN  write_lines([i \in 1..Len(lines) |-> unblock_all_line(lines[i])])

\* unblock_domains without the already-commented test
unblock_domains_line_recomment(domains, line) ==
    IF has(NEVERBLOCK, line) THEN line
    ELSE IF \E k \in 1..Len(domains) : IsSubstring(domains[k], line)
         THEN <<HASH, SP>> \o line
         ELSE line

unblock_domains_line(domains, line) ==
    IF has(NEVERBLOCK, line) THEN line
    ELSE IF is_commented(line) THEN line
    ELSE IF \E k \in 1..Len(domains) : IsSubstring(domains[k], line)
         THEN <<HASH, SP>> \o line
         ELSE line

unblock_domains(domains, text) ==
    LET lines == splitlines(text)
    IN  write_lines([i \in 1..Len(lines) |->
                        unblock_domains_line(domains, lines[i])])

----------------------------------------------------------------------------
(* Classification of a line (spec section 3, cli.py get_*_domains) *)

PermanentAllow(line) == has(NEVERBLOCK, line)
Rejection(line) == has(BLOCKME, line) /\ ~has(NEVERBLOCK, line)
RejectionActive(line) == Rejection(line) /\ ~is_commented(line)
RejectionDisabled(line) == Rejection(line) /\ is_commented(line)

----------------------------------------------------------------------------
(* Direct calls of the hosts.py functions on a file *)

Patterns == {<<"face">>, <<"book">>, <<"face", "book">>, <<BLOCKME>>}

DomainLists == {<<p>> : p \in Patterns} \cup {<<<<"face">>, <<"book">>>>}

\* Optional[...] of Python
None == [some |-> FALSE, v |-> 0]
Some(x) == [some |-> TRUE, v |-> x]

\* content of LOCKDOWN_FILE: no FOCUS_DIR, no file, empty or unparsable text,
\* a local timestamp as isoformat() writes it, a timestamp with a UTC offset
NoDir == [kind |-> "nodir", at |-> 0]
Absent == [kind |-> "absent", at |-> 0]
Corrupt == [kind |-> "corrupt", at |-> 0]
Deadline(t) == [kind |-> "deadline", at |-> t]
Aware(t) == [kind |-> "aware", at |-> t]

\* RECENTS_FILE: missing, or a text
NoRecents == [exists |-> FALSE, text |-> <<>>]
RecentsText(text) == [exists |-> TRUE, text |-> text]

\* the files and the OS state a command can change
Persist == [hosts |-> hosts, immutable |-> immutable, lockdown |-> lockdown,
            recents |-> recents, log |-> log, jobs |-> jobs]

NoLoc == [end_time |-> None, reason |-> "", duration |-> 0,
          is_all |-> FALSE, domains |-> <<>>,
          hours |-> 0, t1 |-> 0, t2 |-> 0, raised |-> "none", result |-> None]

NoRun == [cmd |-> "none", removed |-> FALSE, mutated |-> FALSE,
          waited |-> FALSE, confirm |-> "none", recents |-> "none",
          sched |-> "none", warnings |-> {}, steps |-> <<>>,
          outcome |-> "none", code |-> 0, at |-> "none"]

Call(op, domains, after) ==
    /\ Len(calls) < MaxOps
    /\ hosts' = after
    /\ calls' = Append(calls, [op |-> op, domains |-> domains,
                               before |-> hosts, after |-> after])
    /\ UNCHANGED <<immutable, lockdown, now, recents, log, jobs, pc, loc,
                   start, run, nruns>>

CallBlockAll == Call("block_all", <<>>, block_all(hosts))

CallUnblockAll == Call("unblock_all", <<>>, unblock_all(hosts))

CallUnblockDomains ==
    \E ds \in DomainLists : Call("unblock_domains", ds, unblock_domains(ds, hosts))

InitHosts ==
    /\ hosts \in Texts(MaxLen)
    /\ immutable = TRUE
    /\ lockdown = Absent
    /\ now = 0
    /\ recents = NoRecents
    /\ log = <<>>
    /\ jobs = <<>>
    /\ pc = "idle"
    /\ loc = NoLoc
    /\ start = Persist
    /\ run = NoRun
    /\ nruns = 0
    /\ calls = <<>>

NextHosts == CallBlockAll \/ CallUnblockAll \/ CallUnblockDomains

SpecHosts == InitHosts /\ [][NextHosts]_vars

----------------------------------------------------------------------------
(* Properties of the hosts.py functions, checked under SpecHosts *)

CallIdx == 1..Len(calls)
Before(k) == splitlines(calls[k].before)
After(k) == splitlines(calls[k].after)
Prefixed(line) == <<HASH, SP>> \o line

\* C1: every line that contains NEVERBLOCK is the same line, at the same
\* position, before and after block_all, unblock_all and unblock_domains.
C1_PermanentAllowUntouched ==
    \A k \in CallIdx :
        \A i \in 1..Len(Before(k)) :
            PermanentAllow(Before(k)[i]) =>
                /\ i <= Len(After(k))
                /\ After(k)[i] = Before(k)[i]

\* C7: block_all is idempotent: a block_all that directly follows a
\* block_all leaves the file content unchanged.
C7_BlockAllIdempotent ==
    \A k \in CallIdx :
        (k > 1 /\ calls[k].op = "block_all" /\ calls[k - 1].op = "block_all")
            => calls[k].after = calls[k].before

\* C8: after block_all every line with BLOCKME and without NEVERBLOCK is
\* active: its first non-blank character is not the comment marker.
C8_BlockAllActivatesAll ==
    \A k \in CallIdx :
        calls[k].op = "block_all" =>
            \A i \in 1..Len(After(k)) :
                Rejection(After(k)[i]) => ~is_commented(After(k)[i])

\* C9 as stated: unblock_domains({d}) prefixes "# " to the active rejection
\* lines that contain d and leaves every other line unchanged.
C9_OnlyRejectionLinesCommented ==
    \A k \in CallIdx :
        (calls[k].op = "unblock_domains" /\ Len(calls[k].domains) = 1) =>
            \A i \in 1..Len(Before(k)) :
                /\ i <= Len(After(k))
                /\ After(k)[i] =
                     IF /\ RejectionActive(Before(k)[i])
                        /\ IsSubstring(calls[k].domains[1], Before(k)[i])
                     THEN Prefixed(Before(k)[i])
                     ELSE Before(k)[i]

\* C9 amended: unblock_domains({d}) prefixes "# " to exactly the lines that
\* contain d, do not contain NEVERBLOCK and are not already commented,
\* whether or not they carry BLOCKME; every other line is unchanged.
C9_MatchingLinesCommented ==
    \A k \in CallIdx :
        (calls[k].op = "unblock_domains" /\ Len(calls[k].domains) = 1) =>
            \A i \in 1..Len(Before(k)) :
                /\ i <= Len(After(k))
                /\ After(k)[i] =
                     IF /\ ~PermanentAllow(Before(k)[i])
                        /\ ~is_commented(Before(k)[i])
                        /\ IsSubstring(calls[k].domains[1], Before(k)[i])
                     THEN Prefixed(Before(k)[i])
                     ELSE Before(k)[i]

\* A single-domain call that commented one line and left a line without the
\* domain, a commented line with the domain or a NEVERBLOCK line alone.
C9_Witness ==
    \E k \in CallIdx :
        /\ calls[k].op = "unblock_domains"
        /\ Len(calls[k].domains) = 1
        /\ \E i, j \in 1..Len(Before(k)) :
              /\ After(k)[i] = Prefixed(Before(k)[i])
              /\ After(k)[j] = Before(k)[j]

UnblockAllLines(k) ==
    \A i \in 1..Len(Before(k)) :
        /\ i <= Len(After(k))
        /\ After(k)[i] = IF RejectionActive(Before(k)[i])
                         THEN Prefixed(Before(k)[i])
                         ELSE Before(k)[i]

\* C10 as stated: unblock_all prefixes "# " to exactly the active rejection
\* lines, leaves every other line unchanged and keeps the number of lines.
C10_UnblockAllKeepsCount ==
    \A k \in CallIdx :
        calls[k].op = "unblock_all" =>
            /\ UnblockAllLines(k)
            /\ Len(After(k)) = Len(Before(k))

\* C10 amended: as stated for a file that has at least one line; a file
\* without any line becomes a file of one empty line.
C10_UnblockAllExact ==
    \A k \in CallIdx :
        calls[k].op = "unblock_all" =>
            /\ UnblockAllLines(k)
            /\ Before(k) # <<>> => Len(After(k)) = Len(Before(k))
            /\ Before(k) = <<>> => After(k) = << <<>> >>

\* unblock_all commented an active rejection line and left another line.
C10_Witness ==
    \E k \in CallIdx :
        /\ calls[k].op = "unblock_all"
        /\ \E i, j \in 1..Len(Before(k)) :
              /\ RejectionActive(Before(k)[i])
              /\ After(k)[i] = Prefixed(Before(k)[i])
              /\ ~RejectionActive(Before(k)[j])
              /\ After(k)[j] = Before(k)[j]

\* call k is unblock_all, directly after a block_all on a file that has at
\* least one line and only rejection lines and NEVERBLOCK lines
BlockThenUnblock(k) ==
    /\ k > 1
    /\ calls[k].op = "unblock_all"
    /\ calls[k - 1].op = "block_all"
    /\ Before(k - 1) # <<>>
    /\ \A i \in 1..Len(Before(k - 1)) :
          Rejection(Before(k - 1)[i]) \/ PermanentAllow(Before(k - 1)[i])

\* C11: on a file of rejection lines and NEVERBLOCK lines only, block_all
\* followed by unblock_all leaves every rejection line commented, and the
\* file has as many rejection lines as before.
C11_BlockThenUnblockDisablesAll ==
    \A k \in CallIdx :
        BlockThenUnblock(k) =>
            /\ Len(After(k)) = Len(Before(k - 1))
            /\ \A i \in 1..Len(After(k)) :
                  /\ Rejection(After(k)[i]) <=> Rejection(Before(k - 1)[i])
                  /\ Rejection(After(k)[i]) => is_commented(After(k)[i])

\* block_all activated a disabled rejection line and unblock_all commented
\* it again
C11_Witness ==
    \E k \in CallIdx :
        /\ BlockThenUnblock(k)
        /\ \E i \in 1..Len(Before(k - 1)) :
              /\ RejectionDisabled(Before(k - 1)[i])
              /\ RejectionActive(Before(k)[i])
              /\ After(k)[i] = Prefixed(Before(k)[i])

----------------------------------------------------------------------------
(* Bounds and inputs of the commands *)

MaxRuns == 2
MaxTime == 2

RECENTS_MAX == 3
MIN_PATTERN_LENGTH == 4
MIN_DURATION == 1
MAX_DURATION == 480

LineFace == <<"face", SP, BLOCKME>>
LineBook == <<"book", SP, BLOCKME>>

\* hosts files a command can find: fully blocked, with an entry disabled by
\* an earlier unblk, with an entry disabled by hand behind a blank, with a
\* commented NEVERBLOCK line, with a line that carries no marker
HostsSamples ==
    { write_lines(<<LineFace, LineBook>>),
      write_lines(<<Prefixed(LineFace), LineBook>>),
      write_lines(<<LineFace, <<SP, HASH>> \o LineBook>>),
      write_lines(<<LineFace, <<HASH, SP, "book", SP, NEVERBLOCK>> >>),
      write_lines(<< <<"book">>, LineFace >>) }

\* answers to prompt_domains(): ALL (the empty list), a domain, the marker
\* word as a pattern, a pattern of one character (lists of two domains come
\* from the recents)
PromptTargets == { <<>>, << <<"face">> >>, << <<BLOCKME>> >>, << <<HASH>> >> }

Reasons == {"reason"}
Durations == {10}

\* requested hours, in half ticks: negative, zero, positive but shorter than
\* half a tick, one tick, a whole day, more than datetime can hold
HoursInputs == {-2, 0, 1, 2, 6, 40}

\* the argument of "blk lock": a text float() rejects, zero, one tick, a day
LockArgs == {[valid |-> FALSE, hours |-> 0]}
                \cup {[valid |-> TRUE, hours |-> h] : h \in {0, 2, 6}}

----------------------------------------------------------------------------
(* lockdown.py *)

\* the clock: one tick stands for a span of microseconds; now = 0 is the
\* last instant (23:59:59.999999) of a day, a day has TicksPerDay ticks
TicksPerDay == 3

\* datetime.max: a later datetime raises OverflowError
DATETIME_MAX == 9

\* now.replace(hour=23, minute=59, second=59, microsecond=999999)
get_midnight_today(t) ==
    ((t + TicksPerDay - 1) \div TicksPerDay) * TicksPerDay

\* timedelta(hours=hours): hours is given in half ticks, the result is in
\* ticks, rounded half to even as timedelta rounds to microseconds
timedelta_hours(hours) ==
    LET q == hours \div 2
    IN  IF hours % 2 = 0 THEN q
        ELSE IF q % 2 = 0 THEN q ELSE q + 1

\* if hours <= 0: raise LockdownError
\* the test with "<" in place of "<="
invalid_hours_strict(hours) == hours < 0

invalid_hours(hours) == hours <= 0

\* if end_time > midnight: end_time = midnight
\* set_lockdown without the cap
cap_at_midnight_off(end_time, midnight) == end_time

cap_at_midnight(end_time, midnight) ==
    IF end_time > midnight THEN midnight ELSE end_time

\* end_time <= datetime.now() raises TypeError when the file holds a
\* timestamp with a UTC offset (TypeError is not caught)
get_lockdown_end_raises(record) == record.kind = "aware"

\* get_lockdown_end: the deadline, or None when the file is absent, empty,
\* unparsable or the deadline is not after the clock reading t
\* get_lockdown_end with the expiry comparison turned round
get_lockdown_end_flipped(record, t) ==
    IF record.kind # "deadline" THEN None
    ELSE IF record.at >= t THEN None
    ELSE Some(record.at)

\* get_lockdown_end with "<" in place of "<=" in the expiry comparison
get_lockdown_end_nonstrict(record, t) ==
    IF record.kind # "deadline" THEN None
    ELSE IF record.at < t THEN None
    ELSE Some(record.at)

get_lockdown_end(record, t) ==
    IF record.kind # "deadline" THEN None
    ELSE IF record.at <= t THEN None
    ELSE Some(record.at)

\* get_lockdown_remaining, second half: end_time - datetime.now()
get_lockdown_remaining(end_time, t) ==
    IF ~end_time.some THEN None ELSE Some(end_time.v - t)

\* truth value of Optional[timedelta]: None and timedelta(0) are false
truthy(remaining) == remaining.some /\ remaining.v # 0

----------------------------------------------------------------------------
(* friction.py *)

\* random.randint(a, b): the integers it can return
randint(a, b) == a..b

\* get_specific_wait_seconds with "<" in place of "<=" in its first test
get_specific_wait_seconds_lt(duration_minutes) ==
    IF duration_minutes < 20 THEN randint(0, 2)
    ELSE IF duration_minutes <= 60 THEN randint(5, 12)
    ELSE IF duration_minutes <= 180 THEN randint(15, 45)
    ELSE randint(30, 90)

get_specific_wait_seconds(duration_minutes) ==
    IF duration_minutes <= 20 THEN randint(0, 2)
    ELSE IF duration_minutes <= 60 THEN randint(5, 12)
    ELSE IF duration_minutes <= 180 THEN randint(15, 45)
    ELSE randint(30, 90)

get_all_wait_seconds == randint(30, 90)

----------------------------------------------------------------------------
(* eventlog.py, recents.py, scheduler.py *)

\* the timestamp of an entry is left out
log_block_entry ==
    [kind |-> "BLOCK", duration |-> 0, reason |-> "", specific |-> FALSE,
     domains |-> <<>>]

log_unblock_entry(duration, reason, domains) ==
    [kind |-> "UNBLOCK", duration |-> duration, reason |-> reason,
     specific |-> (domains # <<>>), domains |-> domains]

Without(existing, domain) ==
    SelectSeq(existing, LAMBDA d : d # domain)

\* the loop of update_recents without the removal of the old occurrence
insert_reversed_keep(domains, k, existing) ==
    SubSeq(domains, 1, k) \o existing

\* for domain in reversed(domains): drop it from existing, insert at front
RECURSIVE insert_reversed(_, _, _)
insert_reversed(domains, k, existing) ==
    IF k = 0 THEN existing
    ELSE insert_reversed(domains, k - 1,
                         <<domains[k]>> \o Without(existing, domains[k]))

\* Python: str.rstrip(), str.strip()
RECURSIVE rstrip(_)
rstrip(line) ==
    IF line # <<>> /\ line[Len(line)] = SP
    THEN rstrip(SubSeq(line, 1, Len(line) - 1))
    ELSE line

strip(line) == rstrip(lstrip(line))

\* ensure_recents_dir(): mkdir, and touch() when the file is not there
ensure_recents_dir(file) == RecentsText(file.text)

\* [line.strip() for line in content.splitlines() if line.strip()]
stripped_lines(text) ==
    LET lines == splitlines(text)
    IN  SelectSeq([i \in 1..Len(lines) |-> strip(lines[i])],
                  LAMBDA l : l # <<>>)

\* the slice [:RECENTS_MAX] left out
first_max_off(lines) == lines

\* lines[:RECENTS_MAX]
first_max(lines) ==
    SubSeq(lines, 1, IF Len(lines) < RECENTS_MAX THEN Len(lines)
                     ELSE RECENTS_MAX)

\* list_recents(): what it returns (the file is created when missing)
list_recents(file) == first_max(stripped_lines(file.text))

\* update_recents(): the file it leaves
update_recents(domains, file) ==
    LET existing == stripped_lines(file.text)
        merged == insert_reversed(domains, Len(domains), existing)
    IN  RecentsText(write_lines(first_max(merged)))

\* the jobs of the queue whose atrm did not remove them
RECURSIVE KeepJobs(_, _, _)
KeepJobs(queue, k, kept) ==
    IF k > Len(queue) THEN <<>>
    ELSE (IF k \in kept THEN <<queue[k]>> ELSE <<>>)
         \o KeepJobs(queue, k + 1, kept)

at_job(minutes) == [minutes |-> minutes, armed |-> nruns]

----------------------------------------------------------------------------
(* cli.py: steps shared by blk and unblk *)

Running == pc \notin {"idle", "exited"}

Ended(r, outcome, code) ==
    [r EXCEPT !.outcome = outcome, !.code = code, !.at = pc]

Exit(outcome, code) ==
    /\ pc' = "exited"
    /\ run' = Ended(run, outcome, code)

\* the except clauses of blk_block and unblk_main:
\* print, set_immutable_flag(), sys.exit(1)
Handler(outcome) ==
    /\ immutable' = TRUE
    /\ Exit(outcome, 1)
    /\ UNCHANGED <<hosts, lockdown, now, recents, log, jobs, loc, start,
                   nruns, calls>>

\* an exception no except clause of the command catches: traceback, exit 1
Uncaught(outcome) ==
    /\ Exit(outcome, 1)
    /\ UNCHANGED <<hosts, immutable, lockdown, now, recents, log, jobs, loc,
                   start, nruns, calls>>

Begin(cmd, first) ==
    /\ ~Running
    /\ nruns < MaxRuns
    /\ nruns' = nruns + 1
    /\ start' = Persist
    /\ loc' = NoLoc
    /\ \E root \in BOOLEAN :
          IF root
          THEN /\ pc' = first
               /\ run' = [NoRun EXCEPT !.cmd = cmd]
          ELSE /\ pc' = "exited"
               /\ run' = [NoRun EXCEPT !.cmd = cmd, !.outcome = "not_root",
                                       !.code = 1, !.at = "check_root"]
    /\ UNCHANGED <<hosts, immutable, lockdown, now, recents, log, jobs, calls>>

\* remove_immutable_flag(): chattr -i
RemoveFlag(at, next) ==
    /\ pc = at
    /\ immutable' = FALSE
    /\ run' = [run EXCEPT !.removed = TRUE]
    /\ pc' = next
    /\ UNCHANGED <<hosts, lockdown, now, recents, log, jobs, loc, start,
                   nruns, calls>>

\* the run with the calls that have returned added to run.steps
Done(r, names) == [r EXCEPT !.steps = @ \o names]

\* one of the two passes of block_all(); the second one ends the call
HostsStep(at, next, after, names) ==
    /\ pc = at
    /\ hosts' = after
    /\ run' = Done(run, names)
    /\ pc' = next
    /\ UNCHANGED <<immutable, lockdown, now, recents, log, jobs, loc, start,
                   nruns, calls>>

\* a call that changes none of the modelled files (flush_dns)
Skip(at, next, names) ==
    /\ pc = at
    /\ run' = Done(run, names)
    /\ pc' = next
    /\ UNCHANGED <<hosts, immutable, lockdown, now, recents, log, jobs, loc,
                   start, nruns, calls>>

\* set_immutable_flag() on the success path, then the final prints
SetFlagAndFinish(at) ==
    /\ pc = at
    /\ immutable' = TRUE
    /\ Exit("ok", 0)
    /\ UNCHANGED <<hosts, lockdown, now, recents, log, jobs, loc, start,
                   nruns, calls>>

Tick ==
    /\ now < MaxTime
    /\ now' = now + 1
    /\ UNCHANGED <<hosts, immutable, lockdown, recents, log, jobs, pc, loc,
                   start, run, nruns, calls>>

----------------------------------------------------------------------------
(* cli.py: blk_block *)

BlkTry == {"b_remove_flag", "b_normalize_hosts", "b_normalize_style",
           "b_flush", "b_clear_jobs", "b_log", "b_set_flag"}

BlkStart == Begin("blk", "b_remove_flag")

BlkRemoveFlag == RemoveFlag("b_remove_flag", "b_normalize_hosts")

BlkNormalizeHosts ==
    HostsStep("b_normalize_hosts", "b_normalize_style",
              normalize_hosts(hosts), <<>>)

BlkNormalizeStyle ==
    HostsStep("b_normalize_style", "b_flush",
              normalize_comment_style(hosts), <<"block_all">>)

\* blk_block with clear_all_at_jobs() left out
BlkFlushDnsThenLog == Skip("b_flush", "b_log", <<"flush_dns">>)

BlkFlushDns == Skip("b_flush", "b_clear_jobs", <<"flush_dns">>)

\* clear_all_at_jobs(): atq, then atrm per job; every failure is swallowed
\* clear_all_at_jobs() without its "except Exception: pass": a job that
\* could not be removed ends the command with a traceback
BlkClearJobsRaises ==
    /\ pc = "b_clear_jobs"
    /\ \E kept \in SUBSET (1..Len(jobs)) :
          /\ jobs' = KeepJobs(jobs, 1, kept)
          /\ IF kept = {}
             THEN /\ pc' = "b_log"
                  /\ run' = Done(run, <<"clear_all_at_jobs">>)
             ELSE Exit("scheduler_error", 1)
    /\ UNCHANGED <<hosts, immutable, lockdown, now, recents, log, loc, start,
                   nruns, calls>>

BlkClearJobs ==
    /\ pc = "b_clear_jobs"
    /\ \E kept \in SUBSET (1..Len(jobs)) : jobs' = KeepJobs(jobs, 1, kept)
    /\ run' = Done(run, <<"clear_all_at_jobs">>)
    /\ pc' = "b_log"
    /\ UNCHANGED <<hosts, immutable, lockdown, now, recents, log, loc, start,
                   nruns, calls>>

BlkLog ==
    /\ pc = "b_log"
    /\ log' = Append(log, log_block_entry)
    /\ run' = Done(run, <<"log_block">>)
    /\ pc' = "b_set_flag"
    /\ UNCHANGED <<hosts, immutable, lockdown, now, recents, jobs, loc, start,
                   nruns, calls>>

BlkSetFlag == SetFlagAndFinish("b_set_flag")

\* except HostsError: remove_immutable_flag() or a pass of block_all() raised
BlkHostsError ==
    /\ pc \in {"b_remove_flag", "b_normalize_hosts", "b_normalize_style"}
    /\ Handler("hosts_error")

\* except KeyboardInterrupt
BlkInterrupt ==
    /\ pc \in BlkTry
    /\ Handler("interrupted")

\* flush_dns() raises when the flush command cannot be started (no except)
BlkFlushFails ==
    /\ pc = "b_flush"
    /\ Uncaught("flush_error")

\* log_block() raises OSError when LOG_FILE cannot be appended (no except)
BlkLogFails ==
    /\ pc = "b_log"
    /\ Uncaught("log_error")

----------------------------------------------------------------------------
(* cli.py: unblk_main *)

UnblkGatePcs == {"u_lock_end", "u_gate"}

UnblkTry == {"u_remove_flag", "u_normalize_hosts", "u_normalize_style",
             "u_reason", "u_duration", "u_domains", "u_wait", "u_confirm",
             "u_mutate", "u_flush", "u_log", "u_recents", "u_schedule",
             "u_set_flag"}

\* statements of the try block that run before unblock_all / unblock_domains
UnblkBeforeMutation == {"u_remove_flag", "u_normalize_hosts",
                        "u_normalize_style", "u_reason", "u_duration",
                        "u_domains", "u_wait", "u_confirm", "u_mutate"}

UnblkStart == Begin("unblk", "u_lock_end")

\* get_lockdown_end() that removes the file of a deadline that has passed
UnblkLockEndUnlinks ==
    /\ pc = "u_lock_end"
    /\ loc' = [loc EXCEPT !.end_time = get_lockdown_end(lockdown, now)]
    /\ lockdown' = IF lockdown.kind = "deadline" /\ lockdown.at <= now
                   THEN Absent ELSE lockdown
    /\ pc' = "u_gate"
    /\ UNCHANGED <<hosts, immutable, now, recents, log, jobs, start, run,
                   nruns, calls>>

\* get_lockdown_remaining(), first half: get_lockdown_end() reads the clock
UnblkLockEnd ==
    /\ pc = "u_lock_end"
    /\ loc' = [loc EXCEPT !.end_time = get_lockdown_end(lockdown, now)]
    /\ pc' = "u_gate"
    /\ UNCHANGED <<hosts, immutable, lockdown, now, recents, log, jobs,
                   start, run, nruns, calls>>

\* end_time - datetime.now() reads the clock again; if remaining: exit(1)
UnblkGate ==
    /\ pc = "u_gate"
    /\ IF truthy(get_lockdown_remaining(loc.end_time, now))
       THEN Exit("locked", 1)
       ELSE pc' = "u_remove_flag" /\ run' = run
    /\ UNCHANGED <<hosts, immutable, lockdown, now, recents, log, jobs, loc,
                   start, nruns, calls>>

UnblkRemoveFlag == RemoveFlag("u_remove_flag", "u_normalize_hosts")

UnblkNormalizeHosts ==
    HostsStep("u_normalize_hosts", "u_normalize_style",
              normalize_hosts(hosts), <<>>)

UnblkNormalizeStyle ==
    HostsStep("u_normalize_style", "u_reason",
              normalize_comment_style(hosts), <<"block_all">>)

Prompt(at, next, newloc) ==
    /\ pc = at
    /\ loc' = newloc
    /\ pc' = next
    /\ UNCHANGED <<hosts, immutable, lockdown, now, recents, log, jobs,
                   start, run, nruns, calls>>

UnblkPromptReason ==
    \E r \in Reasons :
        Prompt("u_reason", "u_duration", [loc EXCEPT !.reason = r])

UnblkPromptDuration ==
    \E d \in Durations :
        Prompt("u_duration", "u_domains", [loc EXCEPT !.duration = d])

\* len(pattern): the characters of its tokens
RECURSIVE len(_)
len(pattern) ==
    IF pattern = <<>> THEN 0
    ELSE len(Tail(pattern))
         + (CASE Head(pattern) = BLOCKME -> 7
              [] Head(pattern) = NEVERBLOCK -> 10
              [] Head(pattern) \in Fragments -> 4
              [] OTHER -> 1)

\* validators.py: a pattern needs MIN_PATTERN_LENGTH characters
is_valid_pattern(pattern) == len(pattern) >= MIN_PATTERN_LENGTH

\* _validate_pattern_list(patterns) returns (raises PromptCancelled if not)
validate_pattern_list(patterns) ==
    \A i \in 1..Len(patterns) : is_valid_pattern(patterns[i])

\* prompt_domains(): (True, []) for ALL, (False, domains) for domains that
\* _validate_pattern_list accepts, PromptCancelled for the others
UnblkPromptDomains ==
    \E ds \in PromptTargets :
        IF validate_pattern_list(ds)
        THEN Prompt("u_domains", "u_wait",
                    [loc EXCEPT !.is_all = (ds = <<>>), !.domains = ds])
        ELSE pc = "u_domains" /\ Handler("cancelled")

\* prompt_domains() with an empty answer: _prompt_from_recents() reads the
\* recents (list_recents makes the file when it is missing); the user ticks
\* the first or all of them, or types the domains when there is none
UnblkPromptFromRecents ==
    /\ pc = "u_domains"
    /\ recents' = ensure_recents_dir(recents)
    /\ LET listed == list_recents(recents)
       IN  \E ds \in (IF listed = <<>> THEN PromptTargets \ {<<>>}
                       ELSE {<<listed[1]>>, listed}) :
               IF validate_pattern_list(ds)
               THEN /\ loc' = [loc EXCEPT !.is_all = FALSE, !.domains = ds]
                    /\ pc' = "u_wait"
                    /\ UNCHANGED <<immutable, run>>
               ELSE /\ loc' = loc
                    /\ immutable' = TRUE
                    /\ Exit("cancelled", 1)
    /\ UNCHANGED <<hosts, lockdown, now, log, jobs, start, nruns, calls>>

\* except PromptCancelled
UnblkPromptCancelled ==
    /\ pc \in {"u_reason", "u_duration", "u_domains"}
    /\ Handler("cancelled")

\* unblk_main without the friction wait
UnblkWaitSkipped ==
    /\ pc = "u_wait"
    /\ pc' = IF loc.is_all THEN "u_confirm" ELSE "u_mutate"
    /\ UNCHANGED <<hosts, immutable, lockdown, now, recents, log, jobs, loc,
                   start, run, nruns, calls>>

\* the friction wait: wait_seconds is drawn, wait_with_spinner(wait_seconds)
\* sleeps that long and returns (an interrupt of the sleep is UnblkInterrupt)
UnblkWait ==
    /\ pc = "u_wait"
    /\ \E wait_seconds \in (IF loc.is_all THEN get_all_wait_seconds
                            ELSE get_specific_wait_seconds(loc.duration)) :
          /\ wait_seconds >= 0
          /\ run' = Done([run EXCEPT !.waited = TRUE], <<"wait">>)
    /\ pc' = IF loc.is_all THEN "u_confirm" ELSE "u_mutate"
    /\ UNCHANGED <<hosts, immutable, lockdown, now, recents, log, jobs, loc,
                   start, nruns, calls>>

\* if not confirm_window(10): set_immutable_flag(); sys.exit(1)
\* the confirmation test without its "not"
confirm_aborts_inverted(confirmed) == confirmed

confirm_aborts(confirmed) == ~confirmed

UnblkConfirm ==
    /\ pc = "u_confirm"
    /\ \E confirmed \in BOOLEAN :
          LET r == Done([run EXCEPT !.confirm = IF confirmed
                                                 THEN "confirmed"
                                                 ELSE "timeout"],
                        <<"confirm_window">>)
          IN  IF confirm_aborts(confirmed)
              THEN /\ immutable' = TRUE
                   /\ pc' = "exited"
                   /\ run' = Ended(r, "timeout", 1)
              ELSE /\ immutable' = immutable
                   /\ pc' = "u_mutate"
                   /\ run' = r
    /\ UNCHANGED <<hosts, lockdown, now, recents, log, jobs, loc, start,
                   nruns, calls>>

UnblkMutate ==
    /\ pc = "u_mutate"
    /\ hosts' = IF loc.is_all THEN unblock_all(hosts)
                ELSE unblock_domains(loc.domains, hosts)
    /\ run' = Done([run EXCEPT !.mutated = TRUE],
                   IF loc.is_all THEN <<"unblock_all">>
                   ELSE <<"unblock_domains">>)
    /\ pc' = "u_flush"
    /\ UNCHANGED <<immutable, lockdown, now, recents, log, jobs, loc, start,
                   nruns, calls>>

\* except HostsError: remove_immutable_flag(), a pass of block_all() or the
\* mutation raised; a failed read or write leaves the file as it was
UnblkHostsError ==
    /\ pc \in {"u_remove_flag", "u_normalize_hosts", "u_normalize_style",
              "u_mutate"}
    /\ Handler("hosts_error")

UnblkFlushDns == Skip("u_flush", "u_log", <<"flush_dns">>)

UnblkFlushFails ==
    /\ pc = "u_flush"
    /\ Uncaught("flush_error")

UnblkLog ==
    /\ pc = "u_log"
    /\ log' = Append(log, log_unblock_entry(loc.duration, loc.reason,
                                            IF loc.is_all THEN <<>>
                                            ELSE loc.domains))
    /\ run' = Done(run, <<"log_unblock">>)
    /\ pc' = IF loc.is_all THEN "u_schedule" ELSE "u_recents"
    /\ UNCHANGED <<hosts, immutable, lockdown, now, recents, jobs, loc, start,
                   nruns, calls>>

\* log_unblock() raises OSError (no except)
UnblkLogFails ==
    /\ pc = "u_log"
    /\ Uncaught("log_error")

UnblkUpdateRecents ==
    /\ pc = "u_recents"
    /\ recents' = update_recents(loc.domains, recents)
    /\ run' = Done([run EXCEPT !.recents = "updated"], <<"update_recents">>)
    /\ pc' = "u_schedule"
    /\ UNCHANGED <<hosts, immutable, lockdown, now, log, jobs, loc, start,
                   nruns, calls>>

\* update_recents() raised RecentsError and no except clause caught it
UnblkRecentsErrorUncaught ==
    /\ pc = "u_recents"
    /\ pc' = "exited"
    /\ run' = Ended([run EXCEPT !.recents = "failed"], "recents_error", 1)
    /\ UNCHANGED <<hosts, immutable, lockdown, now, recents, log, jobs, loc,
                   start, nruns, calls>>

\* except RecentsError: print a warning and go on; the file is as it was,
\* or was made by ensure_recents_dir, or was emptied by the failed write
UnblkRecentsError ==
    /\ pc = "u_recents"
    /\ recents' \in {recents, ensure_recents_dir(recents), RecentsText(<<>>)}
    /\ run' = [run EXCEPT !.recents = "failed",
                          !.warnings = @ \cup {"recents"}]
    /\ pc' = "u_schedule"
    /\ UNCHANGED <<hosts, immutable, lockdown, now, log, jobs, loc, start,
                   nruns, calls>>

\* schedule_reblock(duration): at now + duration minutes
UnblkSchedule ==
    /\ pc = "u_schedule"
    /\ jobs' = Append(jobs, at_job(loc.duration))
    /\ run' = Done([run EXCEPT !.sched = "armed"], <<"schedule_reblock">>)
    /\ pc' = "u_set_flag"
    /\ UNCHANGED <<hosts, immutable, lockdown, now, recents, log, loc, start,
                   nruns, calls>>

\* at was started and rejected the job: communicate() returns, the exit
\* status is not looked at, nothing is printed
UnblkScheduleRejected ==
    /\ pc = "u_schedule"
    /\ run' = Done([run EXCEPT !.sched = "rejected"],
                   <<"schedule_reblock">>)
    /\ pc' = "u_set_flag"
    /\ UNCHANGED <<hosts, immutable, lockdown, now, recents, log, jobs, loc,
                   start, nruns, calls>>

\* at could not be started: SchedulerError; unblk_main has no except clause
\* for it, the process ends with a traceback
UnblkScheduleFails ==
    /\ pc = "u_schedule"
    /\ pc' = "exited"
    /\ run' = Ended([run EXCEPT !.sched = "failed"], "scheduler_error", 1)
    /\ UNCHANGED <<hosts, immutable, lockdown, now, recents, log, jobs, loc,
                   start, nruns, calls>>

UnblkSetFlag == SetFlagAndFinish("u_set_flag")

\* except KeyboardInterrupt
UnblkInterrupt ==
    /\ pc \in UnblkTry
    /\ Handler("interrupted")

\* KeyboardInterrupt before the try block
UnblkInterruptEarly ==
    /\ pc \in UnblkGatePcs
    /\ Uncaught("interrupted")

----------------------------------------------------------------------------
(* lockdown.py: set_lockdown, from blk_lock or called directly.  It reads  *)
(* the clock twice, which makes two steps; the statements that do not read *)
(* the clock belong to the step of the reading before or after them.       *)

LockdownCall(op, l, after, locked) ==
    [op |-> op, hours |-> l.hours, before |-> start.lockdown,
     after |-> after, raised |-> l.raised, result |-> l.result,
     locked |-> locked, t1 |-> l.t1, t2 |-> l.t2, t |-> now]

\* the function hands its result or its exception to the caller: blk_lock
\* prints and exits (cli.py), a direct caller keeps what it got
Return(l, after) ==
    /\ loc' = l
    /\ IF run.cmd = "lock"
       THEN /\ pc' = "exited"
            /\ run' = Ended(run,
                            IF l.raised = "none" THEN "ok"
                            ELSE IF l.raised = "LockdownError"
                                 THEN "lockdown_error"
                                 ELSE "overflow_error",
                            IF l.raised = "none" THEN 0 ELSE 1)
            /\ calls' = calls
       ELSE /\ pc' = "idle"
            /\ run' = run
            /\ calls' = Append(calls, LockdownCall(run.cmd, l, after, FALSE))

\* if hours <= 0: raise LockdownError
\* now = datetime.now(); end_time = now + timedelta(hours=hours)
SetLockdownNow ==
    /\ pc = "sl_now"
    /\ LET end_time == now + timedelta_hours(loc.hours)
       IN  IF invalid_hours(loc.hours)
           THEN Return([loc EXCEPT !.raised = "LockdownError"], lockdown)
           ELSE IF end_time > DATETIME_MAX
                THEN Return([loc EXCEPT !.t1 = now,
                                        !.raised = "OverflowError"],
                            lockdown)
                ELSE /\ pc' = "sl_midnight"
                     /\ loc' = [loc EXCEPT !.t1 = now,
                                           !.end_time = Some(end_time)]
                     /\ UNCHANGED <<run, calls>>
    /\ UNCHANGED <<hosts, immutable, lockdown, now, recents, log, jobs,
                   start, nruns>>

\* midnight = get_midnight_today(), which reads the clock again; the cap;
\* focus_dir.mkdir(...); lockdown_file.write_text(end_time.isoformat())
SetLockdownWrite ==
    /\ pc = "sl_midnight"
    /\ LET end_time == cap_at_midnight(loc.end_time.v,
                                       get_midnight_today(now))
       IN  /\ lockdown' = Deadline(end_time)
           /\ Return([loc EXCEPT !.t2 = now, !.end_time = Some(end_time),
                                 !.result = Some(end_time)],
                     Deadline(end_time))
    /\ UNCHANGED <<hosts, immutable, now, recents, log, jobs, start, nruns>>

\* except OSError: raise LockdownError.  mkdir failed, or the file could not
\* be opened after mkdir, or it was opened (and emptied) and the write failed
SetLockdownWriteFails ==
    /\ pc = "sl_midnight"
    /\ \E after \in {lockdown,
                      IF lockdown = NoDir THEN Absent ELSE lockdown,
                      Corrupt} :
          /\ lockdown' = after
          /\ Return([loc EXCEPT !.t2 = now, !.raised = "LockdownError"],
                    after)
    /\ UNCHANGED <<hosts, immutable, now, recents, log, jobs, start, nruns>>

----------------------------------------------------------------------------
(* cli.py: blk_lock *)

BlkLockStart == Begin("lock", "l_parse")

\* hours = float(hours_str); except ValueError: exit(1);
\* if hours <= 0: exit(1)
BlkLockParse ==
    /\ pc = "l_parse"
    /\ \E arg \in LockArgs :
          IF ~arg.valid
          THEN Exit("invalid_hours", 1) /\ loc' = loc
          ELSE IF arg.hours <= 0
               THEN Exit("not_positive", 1) /\ loc' = loc
               ELSE /\ pc' = "sl_now"
                    /\ loc' = [loc EXCEPT !.hours = arg.hours]
                    /\ run' = run
    /\ UNCHANGED <<hosts, immutable, lockdown, now, recents, log, jobs,
                   start, nruns, calls>>

----------------------------------------------------------------------------
(* cli.py: blk_status (no check_root) *)

BlkStatusStart ==
    /\ ~Running
    /\ nruns < MaxRuns
    /\ nruns' = nruns + 1
    /\ start' = Persist
    /\ loc' = NoLoc
    /\ pc' = "s_lock_end"
    /\ run' = [NoRun EXCEPT !.cmd = "status"]
    /\ UNCHANGED <<hosts, immutable, lockdown, now, recents, log, jobs, calls>>

\* remaining = get_lockdown_remaining(), first half: get_lockdown_end()
BlkStatusLockEnd ==
    Prompt("s_lock_end", "s_remaining",
           [loc EXCEPT !.end_time = get_lockdown_end(lockdown, now)])

\* second half: end_time - datetime.now(); if remaining: print LOCKED;
\* get_unblocked_domains() reads the hosts file; the prints
BlkStatusRemaining ==
    /\ pc = "s_remaining"
    /\ loc' = [loc EXCEPT !.result = get_lockdown_remaining(loc.end_time,
                                                            now)]
    /\ Exit("ok", 0)
    /\ UNCHANGED <<hosts, immutable, lockdown, now, recents, log, jobs,
                   start, nruns, calls>>

----------------------------------------------------------------------------

\* no rejection entry of the file is disabled
AllBlocked(text) ==
    \A i \in 1..Len(splitlines(text)) :
        ~RejectionDisabled(splitlines(text)[i])

\* a lockdown is pending at the start only over a fully blocked file
Init ==
    /\ hosts \in HostsSamples
    /\ immutable = TRUE
    /\ lockdown \in {Absent, Corrupt, Deadline(MaxTime)}
    /\ lockdown.kind = "deadline" => AllBlocked(hosts)
    /\ now = 0
    /\ recents = NoRecents
    /\ log = <<>>
    /\ jobs = <<>>
    /\ pc = "idle"
    /\ loc = NoLoc
    /\ start = Persist
    /\ run = NoRun
    /\ nruns = 0
    /\ calls = <<>>

Next ==
    \/ Tick
    \/ BlkStart \/ BlkRemoveFlag \/ BlkNormalizeHosts \/ BlkNormalizeStyle
    \/ BlkFlushDns \/ BlkClearJobs \/ BlkLog \/ BlkSetFlag
    \/ BlkHostsError \/ BlkInterrupt \/ BlkFlushFails \/ BlkLogFails
    \/ UnblkStart \/ UnblkLockEnd \/ UnblkGate \/ UnblkRemoveFlag
    \/ UnblkNormalizeHosts \/ UnblkNormalizeStyle
    \/ UnblkPromptReason \/ UnblkPromptDuration \/ UnblkPromptDomains
    \/ UnblkPromptFromRecents
    \/ UnblkPromptCancelled \/ UnblkWait \/ UnblkConfirm \/ UnblkMutate
    \/ UnblkHostsError \/ UnblkFlushDns \/ UnblkFlushFails
    \/ UnblkLog \/ UnblkLogFails \/ UnblkUpdateRecents \/ UnblkRecentsError
    \/ UnblkSchedule \/ UnblkScheduleRejected \/ UnblkScheduleFails
    \/ UnblkSetFlag \/ UnblkInterrupt \/ UnblkInterruptEarly
    \/ BlkLockStart \/ BlkLockParse
    \/ BlkStatusStart \/ BlkStatusLockEnd \/ BlkStatusRemaining
    \/ SetLockdownNow \/ SetLockdownWrite \/ SetLockdownWriteFails

Spec == Init /\ [][Next]_vars

----------------------------------------------------------------------------
(* The commands together with atd, which runs the jobs that unblk arms.    *)
(* A job is the command "sudo blk" (scheduler.py: cmd); atd takes it out   *)
(* of the queue when it starts it.  The commands are modelled one at a     *)
(* time, so a job that falls due while unblk runs starts when unblk has    *)
(* ended; the jobs of one duration fall due in the order they were armed.  *)

AtFire ==
    /\ ~Running
    /\ jobs # <<>>
    /\ jobs' = Tail(jobs)
    /\ start' = [Persist EXCEPT !.jobs = Tail(jobs)]
    /\ loc' = NoLoc
    /\ run' = [NoRun EXCEPT !.cmd = "blk"]
    /\ pc' = "b_remove_flag"
    /\ UNCHANGED <<hosts, immutable, lockdown, now, recents, log, nruns,
                   calls>>

\* the statements of blk_block and of unblk_main, when they return
BlkProgress ==
    \/ BlkRemoveFlag \/ BlkNormalizeHosts \/ BlkNormalizeStyle
    \/ BlkFlushDns \/ BlkClearJobs \/ BlkLog \/ BlkSetFlag

UnblkProgress ==
    \/ UnblkLockEnd \/ UnblkGate \/ UnblkRemoveFlag
    \/ UnblkNormalizeHosts \/ UnblkNormalizeStyle
    \/ UnblkPromptReason \/ UnblkPromptDuration \/ UnblkPromptDomains
    \/ UnblkWait \/ UnblkConfirm \/ UnblkMutate \/ UnblkFlushDns
    \/ UnblkLog \/ UnblkUpdateRecents
    \/ UnblkSchedule \/ UnblkScheduleRejected \/ UnblkSetFlag

\* the exceptions the statements can raise; a job has no terminal, so the
\* only interrupts are those of unblk
Failures ==
    \/ BlkHostsError \/ BlkFlushFails \/ BlkLogFails
    \/ UnblkPromptCancelled \/ UnblkHostsError \/ UnblkFlushFails
    \/ UnblkLogFails \/ UnblkRecentsError \/ UnblkScheduleFails
    \/ UnblkInterrupt \/ UnblkInterruptEarly

InitLive ==
    /\ hosts = write_lines(<<LineFace, LineBook>>)
    /\ immutable = TRUE
    /\ lockdown = Absent
    /\ now = 0
    /\ recents = NoRecents
    /\ log = <<>>
    /\ jobs = <<>>
    /\ pc = "idle"
    /\ loc = NoLoc
    /\ start = Persist
    /\ run = NoRun
    /\ nruns = 0
    /\ calls = <<>>

NextLive == UnblkStart \/ UnblkProgress \/ AtFire \/ BlkProgress \/ Failures

\* atd starts every job of its queue, and a process that was started goes
\* on until it ends: the user answers the prompts, the calls return
SpecLive ==
    /\ InitLive
    /\ [][NextLive]_vars
    /\ WF_vars(AtFire)
    /\ WF_vars(BlkProgress)
    /\ WF_vars(UnblkProgress)

----------------------------------------------------------------------------
(* Direct calls of the lockdown.py functions, as the tests make them *)

CallSetLockdown ==
    /\ pc = "idle"
    /\ Len(calls) < MaxOps
    /\ \E hours \in HoursInputs : loc' = [NoLoc EXCEPT !.hours = hours]
    /\ run' = [NoRun EXCEPT !.cmd = "set_lockdown"]
    /\ start' = Persist
    /\ pc' = "sl_now"
    /\ UNCHANGED <<hosts, immutable, lockdown, now, recents, log, jobs,
                   nruns, calls>>

\* get_lockdown_remaining, first half: end_time = get_lockdown_end(), which
\* reads the clock, or raises
CallGetRemaining ==
    /\ pc = "idle"
    /\ Len(calls) < MaxOps
    /\ IF get_lockdown_end_raises(lockdown)
       THEN /\ loc' = [NoLoc EXCEPT !.t1 = now, !.raised = "TypeError"]
            /\ calls' = Append(calls,
                    [LockdownCall("get_lockdown_remaining", loc', lockdown,
                                  FALSE) EXCEPT !.before = lockdown])
            /\ pc' = "idle"
       ELSE /\ loc' = [NoLoc EXCEPT !.t1 = now,
                            !.end_time = get_lockdown_end(lockdown, now)]
            /\ calls' = calls
            /\ pc' = "gr_now"
    /\ run' = [NoRun EXCEPT !.cmd = "get_lockdown_remaining"]
    /\ start' = Persist
    /\ UNCHANGED <<hosts, immutable, lockdown, now, recents, log, jobs,
                   nruns>>

\* second half: if end_time is None: return None;
\* return end_time - datetime.now()
GetRemainingNow ==
    /\ pc = "gr_now"
    /\ Return([loc EXCEPT !.t2 = now,
                          !.result = get_lockdown_remaining(loc.end_time,
                                                            now)],
              lockdown)
    /\ UNCHANGED <<hosts, immutable, lockdown, now, recents, log, jobs,
                   start, nruns>>

\* a call that is one step: is_locked, clear_lockdown
CallAtomic(op, after, raised, locked) ==
    /\ pc = "idle"
    /\ Len(calls) < MaxOps
    /\ lockdown' = after
    /\ calls' = Append(calls,
                  [op |-> op, hours |-> 0, before |-> lockdown,
                   after |-> after, raised |-> raised, result |-> None,
                   locked |-> locked, t1 |-> now, t2 |-> now, t |-> now])
    /\ UNCHANGED <<hosts, immutable, now, recents, log, jobs, pc, loc, start,
                   run, nruns>>

\* return get_lockdown_end(lockdown_file) is not None
CallIsLocked ==
    IF get_lockdown_end_raises(lockdown)
    THEN CallAtomic("is_locked", lockdown, "TypeError", FALSE)
    ELSE CallAtomic("is_locked", lockdown, "none",
                    get_lockdown_end(lockdown, now).some)

\* if lockdown_file.exists(): lockdown_file.unlink()
CallClearLockdown ==
    CallAtomic("clear_lockdown",
               IF lockdown = NoDir THEN NoDir ELSE Absent, "none", FALSE)

\* except OSError: raise LockdownError; the file is still there
CallClearLockdownFails ==
    /\ lockdown.kind \notin {"nodir", "absent"}
    /\ CallAtomic("clear_lockdown", lockdown, "LockdownError", FALSE)

InitLockdown ==
    /\ hosts = write_lines(<<LineFace>>)
    /\ immutable = TRUE
    /\ lockdown \in {NoDir, Absent, Corrupt, Aware(MaxTime)}
                        \cup {Deadline(t) : t \in 0..MaxTime}
    /\ now = 0
    /\ recents = NoRecents
    /\ log = <<>>
    /\ jobs = <<>>
    /\ pc = "idle"
    /\ loc = NoLoc
    /\ start = Persist
    /\ run = NoRun
    /\ nruns = 0
    /\ calls = <<>>

NextLockdown ==
    \/ Tick
    \/ CallSetLockdown \/ SetLockdownNow
    \/ SetLockdownWrite \/ SetLockdownWriteFails
    \/ CallGetRemaining \/ GetRemainingNow
    \/ CallIsLocked \/ CallClearLockdown \/ CallClearLockdownFails

SpecLockdown == InitLockdown /\ [][NextLockdown]_vars

----------------------------------------------------------------------------
(* Properties of the lockdown.py functions, checked under SpecLockdown *)

\* 23:59:59.999999 of the day of t: the first multiple of TicksPerDay at or
\* after t
LastInstantOfDay(t) ==
    CHOOSE e \in t..(t + TicksPerDay - 1) : e % TicksPerDay = 0

Min(a, b) == IF a <= b THEN a ELSE b

SetLockdownOk(k) ==
    calls[k].op = "set_lockdown" /\ calls[k].raised = "none"

C13_InvalidHoursChangeNothing ==
    \A k \in CallIdx :
        (calls[k].op = "set_lockdown" /\ calls[k].hours <= 0) =>
            /\ calls[k].raised = "LockdownError"
            /\ ~calls[k].result.some
            /\ calls[k].after = calls[k].before

\* set_lockdown(0) was refused where FOCUS_DIR does not exist
C13_Witness ==
    \E k \in CallIdx :
        /\ calls[k].op = "set_lockdown"
        /\ calls[k].hours = 0
        /\ calls[k].raised = "LockdownError"
        /\ calls[k].before = NoDir
        /\ lockdown = NoDir

\* C14 as stated: get_lockdown_remaining returns None exactly when the
\* record is absent, empty or unparsable, or its deadline is not after the
\* clock it compares with, and deadline - now otherwise; it never raises
\* and never changes the record.
C14_RemainingExact ==
    \A k \in CallIdx :
        calls[k].op = "get_lockdown_remaining" =>
            LET c == calls[k]
                none == \/ c.before.kind \in {"nodir", "absent", "corrupt"}
                        \/ c.before.at <= c.t1
            IN  /\ c.raised = "none"
                /\ c.after = c.before
                /\ c.result = IF none THEN None
                              ELSE Some(c.before.at - c.t2)

\* is_locked is called with the clock where the previous call left it
Immediately(k) ==
    k > 1 /\ calls[k].op = "is_locked" /\ calls[k].t = calls[k - 1].t

ClearLockdownIsNoOpWhenAbsent ==
    \A k \in CallIdx :
        (calls[k].op = "clear_lockdown"
            /\ calls[k].before.kind \in {"nodir", "absent"}) =>
                calls[k].raised = "none" /\ calls[k].after = calls[k].before

NotLockedAfterClear ==
    \A k \in CallIdx :
        (k > 1 /\ calls[k].op = "is_locked"
               /\ calls[k - 1].op = "clear_lockdown"
               /\ calls[k - 1].raised = "none") =>
            calls[k].raised = "none" /\ ~calls[k].locked

C33_RemainingPositive ==
    \A k \in CallIdx :
        (/\ calls[k].op = "get_lockdown_remaining"
         /\ calls[k].raised = "none"
         /\ calls[k].result.some) =>
            calls[k].result.v > 0

\* C28: while a lockdown with deadline D is active, no set_lockdown with
\* positive hours moves the persisted deadline to an instant earlier than D.
C28_LockNotShortened ==
    \A k \in CallIdx :
        (/\ SetLockdownOk(k)
         /\ calls[k].before.kind = "deadline"
         /\ calls[k].before.at > calls[k].t) =>
            calls[k].after.at >= calls[k].before.at

----------------------------------------------------------------------------
(* Direct calls of the recents.py functions, as the tests make them *)

\* domains as prompt_domains() hands them on: str.split() leaves no blank
RecentDomains == {<<"face">>, <<"book">>, <<"face", "book">>,
                  <<"book", "face">>}

\* the lists of up to two domains, a list with a repetition, and a list of
\* more than RECENTS_MAX domains
RecentsInputs ==
    UNION {[1..n -> RecentDomains] : n \in 0..2}
        \cup { << <<"face">>, <<"book">>, <<"face">> >>,
               << <<"face">>, <<"book">>, <<"face", "book">>,
                  <<"book", "face">> >> }

RecentsCall(op, domains, after, raised, result) ==
    /\ Len(calls) < MaxOps
    /\ recents' = after
    /\ calls' = Append(calls, [op |-> op, domains |-> domains,
                               before |-> recents, after |-> after,
                               raised |-> raised, result |-> result])
    /\ UNCHANGED <<hosts, immutable, lockdown, now, log, jobs, pc, loc,
                   start, run, nruns>>

CallUpdateRecents ==
    \E ds \in RecentsInputs :
        RecentsCall("update_recents", ds, update_recents(ds, recents),
                    "none", <<>>)

\* except Exception: raise RecentsError.  The directory or the file could
\* not be made, or the file could not be read, or it was opened for
\* writing (and emptied) and the write failed
CallUpdateRecentsFails ==
    \E ds \in RecentsInputs :
        \E after \in {recents, ensure_recents_dir(recents),
                       RecentsText(<<>>)} :
            RecentsCall("update_recents", ds, after, "RecentsError", <<>>)

CallListRecents ==
    RecentsCall("list_recents", <<>>, ensure_recents_dir(recents), "none",
                list_recents(recents))

InitRecents ==
    /\ hosts = write_lines(<<LineFace>>)
    /\ immutable = TRUE
    /\ lockdown = Absent
    /\ now = 0
    /\ recents \in {NoRecents, RecentsText(<<>>)}
    /\ log = <<>>
    /\ jobs = <<>>
    /\ pc = "idle"
    /\ loc = NoLoc
    /\ start = Persist
    /\ run = NoRun
    /\ nruns = 0
    /\ calls = <<>>

NextRecents ==
    CallUpdateRecents \/ CallUpdateRecentsFails \/ CallListRecents

SpecRecents == InitRecents /\ [][NextRecents]_vars

----------------------------------------------------------------------------
(* Properties of the recents.py functions, checked under SpecRecents *)

\* the domains a recents file holds, in order
Stored(file) == stripped_lines(file.text)

NoDuplicates(list) ==
    \A i, j \in 1..Len(list) : i # j => list[i] # list[j]

Position(list, d) == {i \in 1..Len(list) : list[i] = d}

UpdateOk(k) == calls[k].op = "update_recents" /\ calls[k].raised = "none"

\* C17: starting from a missing or empty recents file, after every sequence
\* of update_recents calls the file holds at most RECENTS_MAX domains, none
\* of them twice, and an update with a domain that was already stored has
\* it once, at the front.
C17_RecentsBoundedNoDuplicates ==
    /\ Len(Stored(recents)) <= RECENTS_MAX
    /\ NoDuplicates(Stored(recents))
    /\ \A k \in CallIdx :
          (UpdateOk(k) /\ calls[k].domains # <<>>) =>
              LET d == calls[k].domains[1]
              IN  Position(Stored(calls[k].after), d) = {1}

\* an update moved a stored domain from a later place to the front of a
\* full list
C17_Witness ==
    \E k \in CallIdx :
        /\ UpdateOk(k)
        /\ calls[k].domains # <<>>
        /\ \E i \in 2..Len(Stored(calls[k].before)) :
              Stored(calls[k].before)[i] = calls[k].domains[1]
        /\ Stored(calls[k].after)[1] = calls[k].domains[1]
        /\ Len(Stored(calls[k].after)) = RECENTS_MAX

\* the distinct elements of ds in the order of their first occurrence
RECURSIVE FirstOccurrences(_, _)
FirstOccurrences(ds, i) ==
    IF i > Len(ds) THEN <<>>
    ELSE (IF \E j \in 1..(i - 1) : ds[j] = ds[i] THEN <<>> ELSE <<ds[i]>>)
         \o FirstOccurrences(ds, i + 1)

NotIn(list, ds) ==
    SelectSeq(list, LAMBDA d : \A j \in 1..Len(ds) : ds[j] # d)

Take(list, n) == SubSeq(list, 1, IF Len(list) < n THEN Len(list) ELSE n)

Expected(k) ==
    Take(FirstOccurrences(calls[k].domains, 1)
             \o NotIn(Stored(calls[k].before), calls[k].domains),
         RECENTS_MAX)

\* C18: update_recents(ds) on a stored list L stores the distinct elements
\* of ds in order of first occurrence, then the elements of L not in ds in
\* their order, cut to RECENTS_MAX; list_recents returns that sequence.
C18_UpdateRecentsExact ==
    \A k \in CallIdx :
        /\ UpdateOk(k) =>
              /\ Stored(calls[k].after) = Expected(k)
              /\ list_recents(calls[k].after) = Expected(k)
              /\ calls[k].after.exists
        /\ (k > 1 /\ calls[k].op = "list_recents" /\ UpdateOk(k - 1)) =>
              calls[k].result = Expected(k - 1)

\* an update with new domains kept an older domain behind them and dropped
\* another one at the cut
C18_Witness ==
    \E k \in CallIdx :
        /\ UpdateOk(k)
        /\ Stored(calls[k].after) = Expected(k)
        /\ Len(Stored(calls[k].after)) = RECENTS_MAX
        /\ \E i, j \in 1..Len(Stored(calls[k].before)) :
              /\ Position(Stored(calls[k].after),
                          Stored(calls[k].before)[i]) = {RECENTS_MAX}
              /\ Position(Stored(calls[k].after),
                          Stored(calls[k].before)[j]) = {}

----------------------------------------------------------------------------
(* Direct calls of the friction.py functions: one call per behaviour, for  *)
(* the grant-all wait or for a duration that prompt_duration() accepts     *)

FrictionCall(op, duration, seconds) ==
    /\ pc = "idle"
    /\ calls = <<>>
    /\ calls' = <<[op |-> op, duration |-> duration, seconds |-> seconds]>>
    /\ pc' = "exited"
    /\ UNCHANGED <<hosts, immutable, lockdown, now, recents, log, jobs, loc,
                   start, run, nruns>>

CallSpecificWait ==
    /\ ~loc.is_all
    /\ \E seconds \in get_specific_wait_seconds(loc.duration) :
          FrictionCall("get_specific_wait_seconds", loc.duration, seconds)

CallAllWait ==
    /\ loc.is_all
    /\ \E seconds \in get_all_wait_seconds :
          FrictionCall("get_all_wait_seconds", loc.duration, seconds)

InitFriction ==
    /\ hosts = <<>>
    /\ immutable = TRUE
    /\ lockdown = Absent
    /\ now = 0
    /\ recents = NoRecents
    /\ log = <<>>
    /\ jobs = <<>>
    /\ pc = "idle"
    /\ loc \in {[NoLoc EXCEPT !.duration = d] :
                    d \in MIN_DURATION..MAX_DURATION}
                \cup {[NoLoc EXCEPT !.is_all = TRUE]}
    /\ start = Persist
    /\ run = NoRun
    /\ nruns = 0
    /\ calls = <<>>

NextFriction == CallSpecificWait \/ CallAllWait

SpecFriction == InitFriction /\ [][NextFriction]_vars

----------------------------------------------------------------------------
(* Properties of friction.py, checked under SpecFriction *)

InRange(x, lo, hi) == x \in Int /\ lo <= x /\ x <= hi

\* C22: for every duration from 1 to 480 minutes the wait for a
\* specific-domain request is a whole number of seconds, from 0 to 2 when
\* the duration is at most 20, from 5 to 12 when it is above 20 and at most
\* 60, from 15 to 45 when it is above 60 and at most 180, from 30 to 90
\* above 180; the wait for grant-all is from 30 to 90.
C22_FrictionRanges ==
    \A k \in 1..Len(calls) :
        LET d == calls[k].duration
            w == calls[k].seconds
        IN  IF calls[k].op = "get_all_wait_seconds" THEN InRange(w, 30, 90)
            ELSE /\ d <= 20 => InRange(w, 0, 2)
                 /\ (20 < d /\ d <= 60) => InRange(w, 5, 12)
                 /\ (60 < d /\ d <= 180) => InRange(w, 15, 45)
                 /\ d > 180 => InRange(w, 30, 90)

\* the wait drawn for 20 minutes, the last duration of the shortest range
C22_Witness ==
    /\ calls # <<>>
    /\ calls[1].op = "get_specific_wait_seconds"
    /\ calls[1].duration = 20
    /\ calls[1].seconds = 2

----------------------------------------------------------------------------
(* Properties of the commands, checked under Spec *)

\* the persisted deadline is after the clock
LockActive == lockdown.kind = "deadline" /\ lockdown.at > now

StartLines == splitlines(start.hosts)
HostsLines == splitlines(hosts)

\* no rejection entry that was active when the command started is disabled
NoneDisabledByRun ==
    \A i \in 1..Len(StartLines) :
        RejectionActive(StartLines[i]) =>
            /\ i <= Len(HostsLines)
            /\ RejectionActive(HostsLines[i])

Cancelled == run.outcome \in {"cancelled", "interrupted"}

\* C2: while a lockdown is active (deadline > now) a run of unblk changes
\* neither the hosts file, the immutable flag, the recents, the log, the
\* job queue nor the lockdown record, and when its gate decides it exits
\* with a non-zero status.
C2_LockedRunChangesNothing ==
    [][ (run.cmd = "unblk" /\ Running /\ LockActive) =>
            /\ Persist' = Persist
            /\ (pc = "u_gate" /\ pc' # pc) =>
                   (pc' = "exited" /\ run'.code # 0) ]_vars

\* a run of unblk that found the lockdown active and exited as locked
C2_Witness ==
    /\ pc = "exited"
    /\ run.cmd = "unblk"
    /\ run.outcome = "locked"
    /\ LockActive
    /\ Persist = start

\* C3: a run of blk or unblk that removed the immutable flag has set it
\* again when the process has terminated, on each of the exit paths the
\* claim lists: success, confirmation timeout, prompt cancellation,
\* interrupt, hosts-file failure, log write failure, scheduling failure.
C3_ExitPaths == {"ok", "timeout", "cancelled", "interrupted", "hosts_error",
                 "log_error", "scheduler_error"}

C3_FlagRestoredOnExit ==
    (pc = "exited" /\ run.removed /\ run.outcome \in C3_ExitPaths)
        => immutable

\* C4: a run of unblk cancelled (prompt cancelled or interrupt) before the
\* mutation step leaves no rejection entry disabled that was active when it
\* started: the file is the start file after zero, one or both passes of
\* block_all.
C4_CancelBeforeMutationKeepsBlocked ==
    (/\ pc = "exited"
     /\ run.cmd = "unblk"
     /\ Cancelled
     /\ run.at \in UnblkBeforeMutation) =>
        /\ NoneDisabledByRun
        /\ ~run.mutated
        /\ hosts \in {start.hosts, normalize_hosts(start.hosts),
                      block_all(start.hosts)}

\* a run interrupted in the friction wait, in front of an active entry
C4_Witness ==
    /\ pc = "exited"
    /\ run.cmd = "unblk"
    /\ run.outcome = "interrupted"
    /\ run.at = "u_wait"
    /\ \E i \in 1..Len(StartLines) : RejectionActive(StartLines[i])
    /\ hosts = block_all(start.hosts)

\* C5: a run of unblk cancelled or interrupted after the mutation step was
\* applied exits with the mutation rolled back: the file is what block_all
\* had made of it.
C5_MutationRolledBack ==
    (/\ pc = "exited"
     /\ run.cmd = "unblk"
     /\ Cancelled
     /\ run.mutated) =>
        /\ hosts = block_all(start.hosts)
        /\ NoneDisabledByRun

\* C6: when no confirmation arrives in the window of a grant-all request,
\* the run exits before unblock_all: the file is what block_all had made of
\* it, no entry was disabled, the log and the job queue are as at the
\* start, and the flag is set.
C6_TimeoutAbortsBeforeMutation ==
    (pc = "exited" /\ run.cmd = "unblk" /\ run.confirm = "timeout") =>
        /\ run.outcome = "timeout"
        /\ run.code # 0
        /\ ~run.mutated
        /\ hosts = block_all(start.hosts)
        /\ NoneDisabledByRun
        /\ log = start.log
        /\ jobs = start.jobs
        /\ recents = start.recents
        /\ immutable

\* a grant-all run that waited, saw the window time out and exited
C6_Witness ==
    /\ pc = "exited"
    /\ run.cmd = "unblk"
    /\ loc.is_all
    /\ run.waited
    /\ run.confirm = "timeout"
    /\ \E i \in 1..Len(HostsLines) : RejectionActive(HostsLines[i])

\* C16: whenever a lockdown is active (a persisted deadline is after the
\* clock) no rejection entry of the hosts file is disabled.
C16_LockedImpliesBlocked == LockActive => AllBlocked(hosts)

\* the hosts file as the mutation step of a specific-domain run leaves it
SpecificGranted == unblock_domains(loc.domains, block_all(start.hosts))

\* C19: when update_recents fails in a run for specific domains the run
\* goes on: unless it is interrupted afterwards it reaches
\* schedule_reblock with the mutation in place, and when the job is
\* accepted the job for the duration is in the queue, the flag is set and
\* the run ends with status 0.
C19_RecentsFailureDoesNotAbort ==
    (/\ pc = "exited"
     /\ run.cmd = "unblk"
     /\ run.recents = "failed"
     /\ run.outcome # "interrupted") =>
        /\ "recents" \in run.warnings
        /\ run.sched # "none"
        /\ run.mutated
        /\ hosts = SpecificGranted
        /\ run.sched = "armed" =>
              /\ jobs = Append(start.jobs, at_job(loc.duration))
              /\ immutable
              /\ run.outcome = "ok"
              /\ run.code = 0

\* a run whose recents update failed ended with status 0, an entry
\* disabled and the job armed
C19_Witness ==
    /\ pc = "exited"
    /\ run.cmd = "unblk"
    /\ run.recents = "failed"
    /\ run.outcome = "ok"
    /\ run.sched = "armed"
    /\ jobs # <<>>
    /\ \E i \in 1..Len(HostsLines) : RejectionDisabled(HostsLines[i])
    /\ hosts # block_all(start.hosts)

\* C20: when the job cannot be submitted (at cannot be started, or at
\* refuses the job) the run prints the scheduling-failed warning and leaves
\* the exception granted: the hosts file stays as the mutation left it.
C20_SchedulingFailureIsWarning ==
    (/\ pc = "exited"
     /\ run.cmd = "unblk"
     /\ run.sched \in {"failed", "rejected"}
     /\ run.outcome # "interrupted") =>
        /\ "scheduling" \in run.warnings
        /\ run.mutated
        /\ hosts = IF loc.is_all THEN unblock_all(block_all(start.hosts))
                   ELSE SpecificGranted

\* the names of run.steps: each of first comes before every one of second
Precedes(first, second) ==
    \A j \in 1..Len(run.steps) :
        run.steps[j] = second =>
            \E i \in 1..(j - 1) : run.steps[i] = first

\* the run of blk called clear_all_at_jobs and met no failure of another
\* statement (an interrupt, a log file that cannot be appended)
ReachedClearJobs ==
    /\ pc = "exited"
    /\ run.cmd = "blk"
    /\ run.at \in {"b_clear_jobs", "b_log", "b_set_flag"}
    /\ run.outcome \notin {"interrupted", "log_error"}

\* C21: a failure of clear_all_at_jobs (atq fails, an atrm fails: jobs stay
\* in the queue) is not surfaced and does not keep blk from completing: the
\* run ends with status 0 and no warning, the hosts file is what block_all
\* made of it, one BLOCK entry is appended to the log and the immutable
\* flag is set.
C21_ClearJobsFailureSwallowed ==
    ReachedClearJobs =>
        /\ run.outcome = "ok"
        /\ run.code = 0
        /\ run.warnings = {}
        /\ hosts = block_all(start.hosts)
        /\ log = Append(start.log, log_block_entry)
        /\ immutable

\* a run of blk that could not remove a pending job and completed
C21_Witness ==
    /\ ReachedClearJobs
    /\ start.jobs # <<>>
    /\ jobs = start.jobs
    /\ run.outcome = "ok"
    /\ log = Append(start.log, log_block_entry)
    /\ immutable


IsPrefix(a, b) == Len(a) <= Len(b) /\ a = SubSeq(b, 1, Len(a))

BlkOrder == <<"block_all", "flush_dns", "clear_all_at_jobs", "log_block">>

C24_LogAppendOnly ==
    (pc = "exited" /\ run.cmd \in {"blk", "unblk"}) =>
        /\ IsPrefix(start.log, log)
        /\ Len(log) <= Len(start.log) + 1
        /\ (run.cmd = "blk" /\ run.outcome = "ok") =>
               log = Append(start.log, log_block_entry)
        /\ (run.cmd = "unblk" /\ ~run.mutated) => log = start.log
        /\ (run.cmd = "unblk" /\ run.mutated) =>
               log = Append(start.log,
                            [kind |-> "UNBLOCK", duration |-> loc.duration,
                             reason |-> loc.reason,
                             specific |-> ~loc.is_all,
                             domains |-> IF loc.is_all THEN <<>>
                                         ELSE loc.domains])


\* the call that mutates the hosts file in a run of unblk
Mutation == IF loc.is_all THEN "unblock_all" ELSE "unblock_domains"

\* C25: in every run of unblk the mutation (unblock_all or unblock_domains)
\* comes only after the friction wait of the request has returned, and for
\* a grant-all request only after the wait and after confirm_window has
\* returned a confirmation, in this order.
C25_MutationAfterFriction ==
    run.cmd = "unblk" =>
        /\ run.mutated =>
              /\ run.waited
              /\ \E j \in 1..Len(run.steps) : run.steps[j] = Mutation
        /\ Precedes("wait", Mutation)
        /\ loc.is_all =>
              /\ Precedes("wait", "confirm_window")
              /\ Precedes("confirm_window", "unblock_all")
              /\ run.mutated => run.confirm = "confirmed"

\* a grant-all run that waited, was confirmed and disabled an entry
C25_Witness ==
    /\ run.cmd = "unblk"
    /\ loc.is_all
    /\ run.mutated
    /\ run.confirm = "confirmed"
    /\ run.steps = <<"block_all", "wait", "confirm_window", "unblock_all">>
    /\ \E i \in 1..Len(HostsLines) : RejectionDisabled(HostsLines[i])
    /\ hosts # block_all(start.hosts)


\* C27: the lockdown record is changed only by set_lockdown (clear_lockdown
\* is called by no command): a step of blk, of unblk, of blk status (each
\* with its get_lockdown_remaining) or of the clock leaves it as it is, so
\* a deadline is neither extended nor removed by another operation or by
\* its own expiry.
C27_LockdownFrame ==
    [][ /\ lockdown' # lockdown => (run.cmd = "lock" /\ pc = "sl_midnight")
        /\ (run.cmd \in {"blk", "unblk", "status"} /\ Running) =>
               lockdown' = lockdown
        /\ now' # now => lockdown' = lockdown ]_vars

\* a deadline that has passed is still in the file after a run of unblk
\* that got through the gate and completed
C27_Witness ==
    /\ pc = "exited"
    /\ run.cmd = "unblk"
    /\ run.outcome = "ok"
    /\ lockdown.kind = "deadline"
    /\ lockdown.at <= now
    /\ lockdown = start.lockdown


\* C30: when a run of unblk has terminated, by whatever exit, after its
\* mutation and with a rejection entry disabled in the hosts file, the at
\* queue holds the reversal job of that run.
C30_GrantedHasReversalJob ==
    (/\ pc = "exited"
     /\ run.cmd = "unblk"
     /\ run.mutated
     /\ \E i \in 1..Len(HostsLines) : RejectionDisabled(HostsLines[i])) =>
        \E j \in 1..Len(jobs) : jobs[j] = at_job(loc.duration)


\* the distinct domains of the rejection entries of a file: the tokens of
\* the entries that are domain fragments
BlockedDomains(text) ==
    {d \in Fragments :
        \E i \in 1..Len(splitlines(text)) :
            /\ Rejection(splitlines(text)[i])
            /\ has(d, splitlines(text)[i])}

\* every rejection entry of the file is disabled, and there is one
AllDisabled(text) ==
    /\ \E i \in 1..Len(splitlines(text)) : Rejection(splitlines(text)[i])
    /\ \A i \in 1..Len(splitlines(text)) :
          ~RejectionActive(splitlines(text)[i])

\* C29: a run of unblk that ends with every rejection entry of a file with
\* two or more blocked domains disabled went through the grant-all
\* friction: it was a request for ALL and was confirmed; a specific-domain
\* request whose patterns were accepted cannot disable every entry.
C29_AllDisabledOnlyByGrantAll ==
    (/\ pc = "exited"
     /\ run.cmd = "unblk"
     /\ run.mutated
     /\ Cardinality(BlockedDomains(start.hosts)) >= 2
     /\ AllDisabled(hosts)) =>
        /\ loc.is_all
        /\ run.confirm = "confirmed"


\* C31: when a run of unblk has ended with exit status 0 and at accepted its
\* job, the at queue holds that job, due loc.duration minutes after this
\* run, and no other: the jobs of earlier runs are gone.
C31_ExactlyOneReversalJob ==
    (/\ pc = "exited"
     /\ run.cmd = "unblk"
     /\ run.outcome = "ok"
     /\ run.sched = "armed") =>
        jobs = <<at_job(loc.duration)>>


\* some target of the list is part of the text of the line
Matched(domains, line) ==
    \E k \in 1..Len(domains) : IsSubstring(domains[k], line)

\* C32: when a run of unblk for specific targets has ended with exit status
\* 0, a rejection entry of the hosts file is disabled if and only if its
\* text contains one of the targets of this run; an entry that an earlier
\* exception disabled and that no target matches is active again.
C32_ExceptionReplacesPrevious ==
    (/\ pc = "exited"
     /\ run.cmd = "unblk"
     /\ run.outcome = "ok"
     /\ ~loc.is_all) =>
        \A i \in 1..Len(HostsLines) :
            Rejection(HostsLines[i]) =>
                (is_commented(HostsLines[i])
                    <=> Matched(loc.domains, HostsLines[i]))


----------------------------------------------------------------------------
(* Properties of the commands with atd, checked under SpecLive *)

\* a job was started and its blk ended with an exception
JobFailed == pc = "exited" /\ run.cmd = "blk" /\ run.outcome # "ok"

\* C26: after a run of unblk that completed (status 0) the system comes
\* back to the blocked state: atd starts the job the run armed, the job
\* runs blk, and, unless that blk itself fails, there comes a state in
\* which no rejection entry is disabled and no job is pending.
C26_EventuallyReblocked ==
    (pc = "exited" /\ run.cmd = "unblk" /\ run.outcome = "ok")
        ~> ((AllBlocked(hosts) /\ jobs = <<>>) \/ JobFailed)

=============================================================================
